---- MODULE Spec2Model ----
(***************************************************************************)
(* A model of zfolder.h (v0.1): the in-memory archive (zfolder), the      *)
(* builder (zf_add_file, zf_add_dir), the codec (zf_compress,             *)
(* zf_decompress, zf_decompress_todir, zf_get_file) and the path helpers  *)
(* (_split_path, _create_necessary_dirs).                                 *)
(*                                                                         *)
(* Bytes and characters are integers (ASCII codes), strings are sequences *)
(* of characters without their terminating NUL, and a zfile's path member *)
(* is the fixed array char path[Z_MAX_PATH_LEN] it is in the code.        *)
(* crash()/crashfmt() end the process: outcome leaves "ok" and no action  *)
(* is enabled afterwards.  zstd is taken as a lossless identity.          *)
(***************************************************************************)
EXTENDS Integers, Sequences, FiniteSets, TLC

VARIABLES
    files,    \* dir->files : [0..Z_MAX_FILES-1 -> zfile]
    nfiles,   \* dir->nfiles
    data,     \* dir->data, the bytes of the allocation
    dlen,     \* dir->dlen
    zst,      \* the archive file: its (decompressed) bytes, or NoFile
    dirs,     \* the file system: the directories that exist (normalised paths)
    fsfiles,  \* the file system: regular files, path -> bytes
    call,     \* the API call made last, with its arguments
    extracts, \* how many times zf_decompress_todir was called
    outcome,  \* "ok" while the process runs, else how it ended
    ub        \* the undefined behaviour the last call ran into, or "none"

vars == <<files, nfiles, data, dlen, zst, dirs, fsfiles, call, extracts, outcome, ub>>

---------------------------------------------------------------------------
(* Configuration and sizes                                                 *)

\* Z_MAX_FILES and Z_MAX_PATH_LEN are compile-time options (#ifndef): the
\* build modelled is the one with -DZ_MAX_FILES=2 -DZ_MAX_PATH_LEN=5.
\* Z_MAX_PATH_LEN must be at least 5 for the source tree below.
Z_MAX_FILES == 2
Z_MAX_PATH_LEN == 5
\* zf_decompress_todir is called at most this often in one run
MaxExtracts == 2

NUL == 0
SLASH == 47
\* uint8_t arithmetic is modulo 2^8
U8Mod == 256
\* one byte of a multi-byte integer
ByteMod == 256

NoFile == <<-1>>

Min(S) == CHOOSE m \in S : \A o \in S : m <= o

Rep(c, n) == [i \in 1..n |-> c]

---------------------------------------------------------------------------
(* The file system as the code sees it through stat, mkdir and fopen       *)

\* a path with every run of slashes made one slash
Collapse(p) ==
    LET keep == {i \in 1..Len(p) : p[i] # SLASH \/ i = 1 \/ p[i - 1] # SLASH}
        nth(j) == CHOOSE i \in keep : Cardinality({k \in keep : k <= i}) = j
    IN [j \in 1..Cardinality(keep) |-> p[nth(j)]]

\* The name a path resolves to: repeated and trailing slashes dropped.
Norm(p) ==
    LET c == Collapse(p)
    IN IF Len(c) > 1 /\ c[Len(c)] = SLASH THEN SubSeq(c, 1, Len(c) - 1) ELSE c

\* The directory holding a normalised path; << >> is the working directory.
Parent(np) ==
    LET sl == {i \in 1..Len(np) : np[i] = SLASH}
    IN IF sl = {} THEN << >>
       ELSE LET k == CHOOSE m \in sl : \A o \in sl : o <= m
            IN IF k = 1 THEN <<SLASH>> ELSE SubSeq(np, 1, k - 1)

ParentExists(np, ds) == Parent(np) = << >> \/ Parent(np) \in ds

\* stat(path, &st) != -1
Stat(p, ds, fl) ==
    /\ p # << >>
    /\ \/ Norm(p) \in ds
       \/ Norm(p) \in DOMAIN fl /\ p[Len(p)] # SLASH

\* _create_dir: mkdir's result is not looked at
MkdirAsIs(p, ds, fl) ==
    IF p # << >> /\ Norm(p) \notin ds /\ Norm(p) \notin DOMAIN fl
       /\ ParentExists(Norm(p), ds)
    THEN ds \cup {Norm(p)}
    ELSE ds

_create_dir(p, ds, fl) == MkdirAsIs(p, ds, fl)

\* fopen(path, "wb") returns non-NULL
CanOpenForWrite(p, ds) ==
    /\ p # << >>
    /\ p[Len(p)] # SLASH
    /\ Norm(p) \notin ds
    /\ ParentExists(Norm(p), ds)

---------------------------------------------------------------------------
(* Path utilities                                                          *)

\* _split_path: the segment length returned (uint8_t) and how far *path
\* is advanced.  0 is returned both for "no '/' left" and for a segment
\* whose length is 0 modulo 2^8.
_split_path(s) ==
    LET sl == {i \in 1..Len(s) : s[i] = SLASH}
    IN IF sl = {} THEN [len |-> 0, adv |-> 0, slash |-> FALSE]
       ELSE LET len == (Min(sl) - 1) % U8Mod
            IN [len |-> len, adv |-> len + 1, slash |-> TRUE]

\* _create_necessary_dirs, from offset off of path (tmp_path - path).
\* buf[sz] = '\0' with sz = Z_MAX_PATH_LEN writes one past char buf[Z_MAX_PATH_LEN]:
\* lucky says whether that store is harmless in this build.
RECURSIVE DirsLoop(_, _, _, _, _, _)
DirsLoop(path, off, ds, fl, lucky, u) ==
    LET r == _split_path(SubSeq(path, off + 1, Len(path)))
        noff == off + r.adv
        sz == noff - 1
    IN IF r.len = 0 THEN [dirs |-> ds, status |-> "ok", ub |-> u]
       ELSE IF sz > Z_MAX_PATH_LEN THEN [dirs |-> ds, status |-> "PathTooLong", ub |-> u]
       ELSE IF sz = Z_MAX_PATH_LEN /\ ~lucky
            THEN [dirs |-> ds, status |-> "undefined", ub |-> "buf_overflow"]
       ELSE LET buf == SubSeq(path, 1, sz)
                ds2 == IF Stat(buf, ds, fl) THEN ds ELSE _create_dir(buf, ds, fl)
            IN DirsLoop(path, noff, ds2, fl, lucky,
                        IF sz = Z_MAX_PATH_LEN THEN "buf_overflow" ELSE u)

_create_necessary_dirs(path, ds, fl, lucky) == DirsLoop(path, 0, ds, fl, lucky, "none")

\* _concat_path(dst, dir, path, strlen(path)): dst = path "/" dir
_concat_path(dir, path) == path \o <<SLASH>> \o dir

---------------------------------------------------------------------------
(* The archive                                                             *)

\* x mod 2^32, for 0 <= x
U32(x) == (x % 65536) + 65536 * ((x \div 65536) % 65536)

\* a zfile after memset(dir, 0, sizeof(zfolder))
ZeroFile == [path |-> Rep(NUL, Z_MAX_PATH_LEN), plen |-> 0, flen |-> 0]

FileIdx == 0..(Z_MAX_FILES - 1)

\* zf_init: memset(dir, 0, sizeof(zfolder))
ZeroArchive == [files |-> [i \in FileIdx |-> ZeroFile], nfiles |-> 0,
                data |-> << >>, dlen |-> 0]

\* the string a char array holds: the bytes before its first NUL
CStrOf(arr) ==
    LET z == {i \in 1..Len(arr) : arr[i] = NUL}
    IN IF z = {} THEN arr ELSE SubSeq(arr, 1, Min(z) - 1)

\* strncpy(dst, src, n) into a char dst[n]: at most n characters, NUL padded
Strncpy(src, n) == [i \in 1..n |-> IF i <= Len(src) THEN src[i] ELSE NUL]

\* strnlen(s, n) of the array just written
Strnlen(arr, n) == LET c == CStrOf(arr) IN IF Len(c) < n THEN Len(c) ELSE n

\* the little-endian bytes of a uint32_t, and back
LE32(x) == << x % ByteMod, (x \div ByteMod) % ByteMod,
              (x \div (ByteMod * ByteMod)) % ByteMod,
              (x \div (ByteMod * ByteMod * ByteMod)) % ByteMod >>

DecodeU32(b) == b[1] + ByteMod * b[2] + ByteMod * ByteMod * b[3]
                + ByteMod * ByteMod * ByteMod * b[4]

\* the entry's path as the format stores it: the first plen bytes
EntryPath(f) == SubSeq(f.path, 1, f.plen)

RECURSIVE SumFlen(_, _)
SumFlen(fs, n) == IF n = 0 THEN 0 ELSE fs[n - 1].flen + SumFlen(fs, n - 1)

---------------------------------------------------------------------------
(* Inputs: the source tree, the output directories                         *)

P_a == <<97>>                                      \* "a"
P_s == <<115>>                                     \* "s"
P_sb == <<115, SLASH, 98>>                         \* "s/b"
P_p == <<112>>                                     \* "p"
P_pq == <<112, SLASH>> \o Rep(113, Z_MAX_PATH_LEN - 4)   \* "p/q..q"
P_pqr == P_pq \o <<SLASH, 114>>                    \* "p/q..q/r", Z_MAX_PATH_LEN long
P_t == <<116>>                                     \* "t"
P_tlong == <<116, SLASH>> \o Rep(101, Z_MAX_PATH_LEN - 1) \* "t/e..e", one too long
P_missing == <<109>>                               \* "m", no such file
P_x == <<120>>                                     \* "x", a directory that exists
P_oo == <<111, 111>>                               \* "oo"
P_abs == <<SLASH, 111>>                            \* "/o"

SourceDirs == {<<SLASH>>, P_s, P_p, P_pq, P_t, P_x}

SourceFiles ==
    (P_a :> <<104, 105>>) @@ (P_sb :> <<98, 121, 101>>) @@ (P_pqr :> <<33>>)
    @@ (P_tlong :> <<121>>)

AddFileArgs == {P_a, P_sb, P_pqr, P_tlong, P_missing}
AddDirArgs == {P_s, P_p, P_t, P_missing}
OutputArgs == {P_oo, P_abs, P_x}

---------------------------------------------------------------------------
(* Archive Builder                                                         *)

Archive == [files |-> files, nfiles |-> nfiles, data |-> data, dlen |-> dlen]

Result(a, status, u) == [a |-> a, status |-> status, ub |-> u]

\* _zf_read_file: append the file's bytes to dir->data; returns its length
\* through flen.  The file is opened by the path the caller passed.
_zf_read_file(a, idx, path, fl) ==
    IF Norm(path) \notin DOMAIN fl
    THEN Result(a, "IOError", "none")
    ELSE LET content == fl[Norm(path)]
             len == Len(content)
         IN Result([a EXCEPT !.data = SubSeq(a.data, 1, a.dlen) \o content,
                             !.dlen = U32(a.dlen + len),
                             !.files[idx].flen = U32(len)],
                   "ok", "none")

\* current->plen = (uint8_t) strnlen(current->path, Z_MAX_PATH_LEN)
StoredPlen(arr) == Strnlen(arr, Z_MAX_PATH_LEN) % U8Mod

\* zf_add_file.  &dir->files[dir->nfiles++] is taken without a look at
\* Z_MAX_FILES: with nfiles = Z_MAX_FILES the entry lies past the array, on
\* dir->nfiles and what follows it.  written says whether the build's stores
\* reach nfiles (path[0..3] lies on it) or not.
AddFile(a, path, fl, written) ==
    IF a.nfiles \notin FileIdx
    THEN Result([a EXCEPT !.nfiles =
                    IF written THEN DecodeU32(Strncpy(path, 4)) ELSE a.nfiles + 1],
                "undefined", "files_overflow")
    ELSE LET idx == a.nfiles
             arr == Strncpy(path, Z_MAX_PATH_LEN)
             a1 == [a EXCEPT !.nfiles = idx + 1,
                             !.files[idx].path = arr,
                             !.files[idx].plen = StoredPlen(arr)]
         IN _zf_read_file(a1, idx, path, fl)

LastSeg(q) ==
    LET sl == {i \in 1..Len(q) : q[i] = SLASH}
    IN IF sl = {} THEN q
       ELSE SubSeq(q, (CHOOSE m \in sl : \A o \in sl : o <= m) + 1, Len(q))

\* what readdir yields for a directory, "." and ".." left out
Children(p, ds, fl) ==
    {q \in (ds \cup DOMAIN fl) : q # Norm(p) /\ q # <<SLASH>> /\ Parent(q) = Norm(p)}

\* readdir's order is the file system's: any
Perms(S) == {f \in [1..Cardinality(S) -> S] : \A i, j \in 1..Cardinality(S) : i # j => f[i] # f[j]}

Ev(t, kind, path) == [t |-> t, kind |-> kind, path |-> path]

Cat(f, r) == IF f # << >> /\ f[Len(f)].t \in {"crash", "undefined"} THEN f ELSE f \o r

\* if (dlen > Z_MAX_PATH_LEN) crashfmt("path is too long ...")
JoinTooLong(dl) == dl > Z_MAX_PATH_LEN

\* The walk of zf_add_dir as the calls it makes, in order, for every order
\* readdir may give.  A joined path of exactly Z_MAX_PATH_LEN characters is
\* written with its NUL one past char temp_fname[Z_MAX_PATH_LEN]: the walk
\* either goes on ("ub") or ends there ("undefined").
RECURSIVE Walk(_, _, _, _)
RECURSIVE WalkFrom(_, _, _, _, _, _)
Walk(p, rec, ds, fl) ==
    IF Norm(p) \notin ds
    THEN {<<Ev("crash", "IOError", p)>>}
    ELSE UNION {WalkFrom(p, rec, ds, fl, perm, 1) : perm \in Perms(Children(p, ds, fl))}

WalkFrom(p, rec, ds, fl, perm, i) ==
    IF i > Len(perm) THEN {<< >>}
    ELSE LET q == perm[i]
             name == LastSeg(q)
             dl == Len(name) + Len(p) + 1
             joined == _concat_path(name, p)
             guarded(S) ==
                 IF JoinTooLong(dl) THEN {<<Ev("crash", "PathTooLong", joined)>>}
                 ELSE IF dl = Z_MAX_PATH_LEN
                      THEN {<<Ev("undefined", "temp_overflow", joined)>>}
                           \cup {<<Ev("ub", "temp_overflow", joined)>> \o w : w \in S}
                 ELSE S
             first ==
                 IF q \in ds /\ rec THEN guarded(Walk(joined, TRUE, ds, fl))
                 ELSE IF q \in DOMAIN fl THEN guarded({<<Ev("add", "none", joined)>>})
                 ELSE {<< >>}
         IN {Cat(f, r) : f \in first, r \in WalkFrom(p, rec, ds, fl, perm, i + 1)}

RECURSIVE ApplyWalk(_, _, _, _, _, _)
ApplyWalk(a, evs, i, fl, written, u) ==
    IF i > Len(evs) THEN Result(a, "ok", u)
    ELSE LET e == evs[i]
         IN CASE e.t = "crash" -> Result(a, e.kind, u)
              [] e.t = "undefined" -> Result(a, "undefined", e.kind)
              [] e.t = "ub" -> ApplyWalk(a, evs, i + 1, fl, written, e.kind)
              [] OTHER ->
                    LET r == AddFile(a, e.path, fl, written)
                    IN IF r.status # "ok" THEN r
                       ELSE ApplyWalk(r.a, evs, i + 1, fl, written, u)

---------------------------------------------------------------------------
(* The process: one action per API call                                    *)

Running == outcome = "ok"

\* The runs explored build, pack and unpack first and extract last, as the
\* header's USAGE and example.c do.
Building == Running /\ extracts = 0

SetArchive(a) ==
    /\ files' = a.files
    /\ nfiles' = a.nfiles
    /\ data' = a.data
    /\ dlen' = a.dlen

Init ==
    /\ files = ZeroArchive.files
    /\ nfiles = ZeroArchive.nfiles
    /\ data = ZeroArchive.data
    /\ dlen = ZeroArchive.dlen
    /\ zst = NoFile
    /\ dirs = SourceDirs
    /\ fsfiles = SourceFiles
    /\ call = [op |-> "zf_init"]
    /\ extracts = 0
    /\ outcome = "ok"
    /\ ub = "none"

zf_init ==
    /\ Building
    /\ SetArchive(ZeroArchive)
    /\ call' = [op |-> "zf_init"]
    /\ UNCHANGED <<zst, dirs, fsfiles, extracts, outcome, ub>>

zf_add_file ==
    /\ Building
    /\ \E path \in AddFileArgs, written \in BOOLEAN :
          LET r == AddFile(Archive, path, fsfiles, written)
          IN /\ SetArchive(r.a)
             /\ outcome' = r.status
             /\ ub' = r.ub
             /\ call' = [op |-> "zf_add_file", path |-> path, n0 |-> nfiles]
    /\ UNCHANGED <<zst, dirs, fsfiles, extracts>>

zf_add_dir ==
    /\ Building
    /\ \E path \in AddDirArgs, recursive \in BOOLEAN, written \in BOOLEAN :
          \E evs \in Walk(path, recursive, dirs, fsfiles) :
              LET r == ApplyWalk(Archive, evs, 1, fsfiles, written, "none")
              IN /\ SetArchive(r.a)
                 /\ outcome' = r.status
                 /\ ub' = r.ub
                 /\ call' = [op |-> "zf_add_dir", path |-> path, n0 |-> nfiles]
    /\ UNCHANGED <<zst, dirs, fsfiles, extracts>>

---------------------------------------------------------------------------
(* Archive Codec: serialize                                                *)

\* copy_to_buf(plen); copy_to_buf(flen); ncopy_to_buf(path, plen)
EntryBytes(f) == <<f.plen>> \o LE32(f.flen) \o SubSeq(f.path, 1, f.plen)

RECURSIVE EntriesBytes(_, _, _)
EntriesBytes(fs, i, n) ==
    IF i >= n THEN << >> ELSE EntryBytes(fs[i]) \o EntriesBytes(fs, i + 1, n)

\* the buffer zf_compress hands to ZSTD_compress
Serialize(a) ==
    LE32(a.nfiles) \o EntriesBytes(a.files, 0, a.nfiles)
    \o LE32(a.dlen) \o SubSeq(a.data, 1, a.dlen)

\* zf_compress: the buffer goes through zstd and _write_whole_file, whose
\* fopen may fail; fwrite's result is not looked at.
zf_compress ==
    /\ Building
    /\ \E zstd_ok \in BOOLEAN, open_ok \in BOOLEAN :
          /\ outcome' = IF ~zstd_ok THEN "CompressionError"
                        ELSE IF ~open_ok THEN "IOError" ELSE "ok"
          /\ zst' = IF zstd_ok /\ open_ok THEN Serialize(Archive) ELSE zst
          /\ call' = [op |-> "zf_compress"]
    /\ ub' = "none"
    /\ UNCHANGED <<files, nfiles, data, dlen, dirs, fsfiles, extracts>>

---------------------------------------------------------------------------
(* Archive Codec: deserialize                                              *)

Avail(buf, pos, n) == pos + n <= Len(buf)

\* the loop of zf_decompress from entry i, buf at offset pos.  No read is
\* checked against the buffer's length, no index against Z_MAX_FILES and
\* no plen against Z_MAX_PATH_LEN: the first access outside an object ends
\* the defined behaviour.
RECURSIVE ParseEntries(_, _, _, _)
ParseEntries(a, buf, pos, i) ==
    IF i >= a.nfiles THEN [a |-> a, pos |-> pos, status |-> "ok", ub |-> "none"]
    ELSE IF ~Avail(buf, pos, 1)
         THEN [a |-> a, pos |-> pos, status |-> "undefined", ub |-> "oob_read"]
    ELSE IF i \notin FileIdx
         THEN [a |-> a, pos |-> pos, status |-> "undefined", ub |-> "files_overflow"]
    ELSE LET pl == buf[pos + 1]
             a1 == [a EXCEPT !.files[i].plen = pl]
         IN IF ~Avail(buf, pos + 1, 4)
            THEN [a |-> a1, pos |-> pos + 1, status |-> "undefined", ub |-> "oob_read"]
            ELSE LET fl == DecodeU32(SubSeq(buf, pos + 2, pos + 5))
                     a2 == [a1 EXCEPT !.files[i].flen = fl]
                 IN IF ~Avail(buf, pos + 5, pl)
                    THEN [a |-> a2, pos |-> pos + 5, status |-> "undefined", ub |-> "oob_read"]
                    ELSE IF pl > Z_MAX_PATH_LEN
                    THEN [a |-> a2, pos |-> pos + 5, status |-> "undefined", ub |-> "path_overflow"]
                    ELSE LET a3 == [a2 EXCEPT !.files[i].path =
                                      [j \in 1..Z_MAX_PATH_LEN |->
                                          IF j <= pl THEN buf[pos + 5 + j] ELSE @[j]]]
                         IN ParseEntries(a3, buf, pos + 5 + pl, i + 1)

\* zf_decompress from "uint8_t *buf = dst" on
Parse(a, buf) ==
    IF ~Avail(buf, 0, 4) THEN Result(a, "undefined", "oob_read")
    ELSE LET a1 == [a EXCEPT !.nfiles = DecodeU32(SubSeq(buf, 1, 4))]
             r == ParseEntries(a1, buf, 4, 0)
         IN IF r.status # "ok" THEN Result(r.a, r.status, r.ub)
            ELSE IF ~Avail(buf, r.pos, 4) THEN Result(r.a, "undefined", "oob_read")
            ELSE LET dl == DecodeU32(SubSeq(buf, r.pos + 1, r.pos + 4))
                     a2 == [r.a EXCEPT !.dlen = dl]
                 IN IF ~Avail(buf, r.pos + 4, dl)
                    THEN Result([a2 EXCEPT !.data = SubSeq(buf, r.pos + 5, Len(buf))],
                                "undefined", "oob_read")
                    ELSE Result([a2 EXCEPT !.data = SubSeq(buf, r.pos + 5, r.pos + 4 + dl)],
                                "ok", "none")

\* Streams no zf_compress wrote: an entry count of Z_MAX_FILES + 1, a path
\* length of Z_MAX_PATH_LEN + 1, and entry lengths that do not add up to
\* the content length.
RECURSIVE Times(_, _)
Times(s, n) == IF n = 0 THEN << >> ELSE s \o Times(s, n - 1)

StreamTooMany ==
    LE32(Z_MAX_FILES + 1) \o Times(<<1>> \o LE32(0) \o P_a, Z_MAX_FILES + 1) \o LE32(0)
StreamLongPath ==
    LE32(1) \o <<Z_MAX_PATH_LEN + 1>> \o LE32(0) \o Rep(97, Z_MAX_PATH_LEN + 1) \o LE32(0)
StreamMismatch ==
    LE32(1) \o <<1>> \o LE32(2) \o P_a \o LE32(1) \o <<104>>

Crafted == {StreamTooMany, StreamLongPath, StreamMismatch}

\* As in the header's USAGE, zf_decompress is given a dir fresh from zf_init.
Fresh == Archive = ZeroArchive

\* zf_decompress: _read_whole_file, the zstd frame, then the parse.  The
\* file named may be the one zf_compress wrote, whole or cut short, or a
\* crafted one.
zf_decompress ==
    /\ Building
    /\ Fresh
    /\ \E src \in ({zst} \cup Crafted), frame_ok \in BOOLEAN :
       \E cut \in (IF src = zst /\ src # NoFile THEN 0..Len(src) ELSE {Len(src)}) :
          LET buf == SubSeq(src, 1, cut)
              r == IF src = NoFile THEN Result(Archive, "IOError", "none")
                   ELSE IF ~frame_ok THEN Result(Archive, "FormatError", "none")
                   ELSE Parse(Archive, buf)
          IN /\ SetArchive(r.a)
             /\ outcome' = r.status
             /\ ub' = r.ub
             /\ call' = [op |-> "zf_decompress", written |-> (src = zst),
                         cut |-> cut, size |-> Len(src),
                         count |-> IF Avail(buf, 0, 4) /\ src # NoFile
                                   THEN DecodeU32(SubSeq(buf, 1, 4)) ELSE 0,
                         parsed |-> (src # NoFile /\ frame_ok)]
    /\ UNCHANGED <<zst, dirs, fsfiles, extracts>>

---------------------------------------------------------------------------
(* Archive Codec: materialize                                              *)

\* zf_get_file: the offset of entry index in dir->data, a uint32_t sum
RECURSIVE FileOffset(_, _)
FileOffset(a, index) ==
    IF index = 0 THEN 0 ELSE U32(FileOffset(a, index - 1) + a.files[index - 1].flen)

PutFile(fl, k, v) == [q \in (DOMAIN fl) \cup {k} |-> IF q = k THEN v ELSE fl[q]]

NoFault == [kind |-> "none", at |-> 0]
Faults(n) == {NoFault} \cup {[kind |-> k, at |-> i] : k \in {"open", "write"}, i \in 0..(n - 1)}

\* _write_whole_file(path, data, dlen): a failed fopen is a crash; what
\* fwrite returns is not looked at, so a failed write leaves the file
\* short (here: empty) and the caller goes on.
WriteAborts(openFails) == openFails
WrittenBytes(bytes, writeFails) == IF writeFails THEN << >> ELSE bytes

\* dir->files[i].path[dir->files[i].plen] = '\0'.  With plen =
\* Z_MAX_PATH_LEN the store is one past char path[Z_MAX_PATH_LEN], where
\* the struct holds plen.
Terminate(f) ==
    IF f.plen < Z_MAX_PATH_LEN
    THEN [f EXCEPT !.path[f.plen + 1] = NUL]
    ELSE [f EXCEPT !.plen = NUL]

\* the string strcpy reads at files[i].path: up to the first NUL, which is
\* the plen byte when the array holds none
PathString(f) == CStrOf(f.path \o <<f.plen, NUL>>)

\* the loop of zf_decompress_todir from entry i.  stored says whether a
\* store one past an array is made (past path[]: on plen; past buf[] in
\* _create_necessary_dirs: harmlessly) or trapped by the build.
RECURSIVE ExtractLoop(_, _, _, _, _, _, _, _, _)
ExtractLoop(a, i, ds, fl, log, output, stored, fault, u) ==
    LET stop(a0, ds0, fl0, status, u0) ==
            [a |-> a0, dirs |-> ds0, fsfiles |-> fl0, status |-> status, ub |-> u0, log |-> log]
    IN IF i >= a.nfiles THEN stop(a, ds, fl, "ok", u)
       ELSE LET f == a.files[i]
                offset == FileOffset(a, i)
                len == f.flen
            IN IF f.plen >= Z_MAX_PATH_LEN /\ ~stored
               THEN stop(a, ds, fl, "undefined", "path_terminator")
               ELSE
               LET a1 == [a EXCEPT !.files[i] = Terminate(f)]
                   u1 == IF f.plen >= Z_MAX_PATH_LEN THEN "path_terminator" ELSE u
                   cstr == PathString(a1.files[i])
                   temp == _concat_path(cstr, output)
               IN IF Len(temp) + 1 > 2 * Z_MAX_PATH_LEN
                  THEN stop(a1, ds, fl, "undefined", "temp_overflow")
                  ELSE
                  LET r == _create_necessary_dirs(temp, ds, fl, stored)
                      u2 == IF r.ub # "none" THEN r.ub ELSE u1
                  IN IF r.status # "ok" THEN stop(a1, r.dirs, fl, r.status, u2)
                     ELSE IF WriteAborts(fault = [kind |-> "open", at |-> i])
                             \/ ~CanOpenForWrite(temp, r.dirs)
                     THEN stop(a1, r.dirs, fl, "IOError", u2)
                     ELSE IF offset + len > Len(a1.data)
                     THEN stop(a1, r.dirs, PutFile(fl, Norm(temp), SubSeq(a1.data, offset + 1, Len(a1.data))),
                               "undefined", "oob_read")
                     ELSE LET bytes == SubSeq(a1.data, offset + 1, offset + len)
                              out == WrittenBytes(bytes, fault = [kind |-> "write", at |-> i] /\ len > 0)
                          IN ExtractLoop(a1, i + 1, r.dirs, PutFile(fl, Norm(temp), out),
                                         Append(log, i), output, stored, fault, u2)

\* a refusal that does not look at the overwrite flag
AlreadyExistsAnyway(output, overwrite, ds, fl) == Stat(output, ds, fl)

\* if (stat(output, &st) != -1 && !overwrite) crashfmt("folder %s already exists")
AlreadyExists(output, overwrite, ds, fl) == Stat(output, ds, fl) /\ ~overwrite

zf_decompress_todir ==
    /\ Running
    /\ extracts < MaxExtracts
    /\ extracts' = extracts + 1
    /\ \E output \in OutputArgs, overwrite \in BOOLEAN, stored \in BOOLEAN,
          fault \in Faults(nfiles) :
          LET r == IF AlreadyExists(output, overwrite, dirs, fsfiles)
                   THEN [a |-> Archive, dirs |-> dirs, fsfiles |-> fsfiles,
                         status |-> "AlreadyExists", ub |-> "none", log |-> << >>]
                   ELSE ExtractLoop(Archive, 0, _create_dir(output, dirs, fsfiles), fsfiles,
                                    << >>, output, stored, fault, "none")
          IN /\ SetArchive(r.a)
             /\ dirs' = r.dirs
             /\ fsfiles' = r.fsfiles
             /\ outcome' = r.status
             /\ ub' = r.ub
             /\ call' = [op |-> "zf_decompress_todir", output |-> output,
                         overwrite |-> overwrite,
                         fault |-> fault, log |-> r.log]
    /\ UNCHANGED zst

Next ==
    \/ zf_init
    \/ zf_add_file
    \/ zf_add_dir
    \/ zf_compress
    \/ zf_decompress
    \/ zf_decompress_todir

Spec == Init /\ [][Next]_vars

---------------------------------------------------------------------------
(* _create_necessary_dirs as a function of its argument                    *)

\* the longest path tried
DirsMaxLen == 6

DirsInputs ==
    (UNION {[1..n -> {97, SLASH}] : n \in 1..DirsMaxLen})
    \cup {Rep(97, U8Mod) \o <<SLASH, 97, SLASH, 97>>}

InitDirs ==
    /\ files = ZeroArchive.files
    /\ nfiles = ZeroArchive.nfiles
    /\ data = ZeroArchive.data
    /\ dlen = ZeroArchive.dlen
    /\ zst = NoFile
    /\ dirs \in {{<<SLASH>>}, {<<SLASH>>, <<97>>}}
    /\ fsfiles = << >>
    /\ \E p \in DirsInputs : call = [op |-> "_create_necessary_dirs", path |-> p, done |-> FALSE]
    /\ extracts = 0
    /\ outcome = "ok"
    /\ ub = "none"

create_necessary_dirs ==
    /\ Running
    /\ ~call.done
    /\ \E stored \in BOOLEAN :
          LET r == _create_necessary_dirs(call.path, dirs, fsfiles, stored)
          IN /\ dirs' = r.dirs
             /\ outcome' = r.status
             /\ ub' = r.ub
    /\ call' = [call EXCEPT !.done = TRUE]
    /\ UNCHANGED <<files, nfiles, data, dlen, zst, fsfiles, extracts>>

NextDirs == create_necessary_dirs

SpecDirs == InitDirs /\ [][NextDirs]_vars

---------------------------------------------------------------------------
(* The claims                                                              *)

Range(q) == {q[i] : i \in 1..Len(q)}

\* the bytes zf_get_file and flen give for entry i of archive a
FileBytes(a, i) ==
    SubSeq(a.data, FileOffset(a, i) + 1, FileOffset(a, i) + a.files[i].flen)

\* an archive built by zf_add_file within the limits, or read back from one
WithinLimits(a) ==
    /\ a.nfiles <= Z_MAX_FILES
    /\ \A i \in 0..(a.nfiles - 1) :
          /\ EntryPath(a.files[i]) \in {P_a, P_sb, P_pqr}
          /\ a.files[i].flen = Len(SourceFiles[EntryPath(a.files[i])])
    /\ a.dlen = SumFlen(a.files, a.nfiles)
    /\ Len(a.data) = a.dlen

SameArchive(a, b) ==
    /\ a.nfiles = b.nfiles
    /\ \A i \in 0..(a.nfiles - 1) :
          /\ a.files[i].plen = b.files[i].plen
          /\ a.files[i].flen = b.files[i].flen
          /\ EntryPath(a.files[i]) = EntryPath(b.files[i])
    /\ a.dlen = b.dlen
    /\ SubSeq(a.data, 1, a.dlen) = SubSeq(b.data, 1, b.dlen)

ArchiveNext == [files |-> files', nfiles |-> nfiles', data |-> data', dlen |-> dlen']

IsExtract == call'.op = "zf_decompress_todir"

\* C1, first half: deserializing what serializing an archive within the
\* limits gives yields the same entry count, the same (path, plen, flen) per
\* entry in order, and the same content and content length.
C1_SerializeParse ==
    (outcome = "ok" /\ WithinLimits(Archive)) =>
        LET r == Parse(ZeroArchive, Serialize(Archive))
        IN r.status = "ok" /\ SameArchive(r.a, Archive)

\* C1: round trip.  The first half, and: extract_to of such an archive (no
\* I/O fault, the output directory free or overwrite set, no undefined
\* behaviour on the way) ends normally with every entry's bytes in the file
\* output_dir/path.
C1_RoundTrip ==
    [][ /\ C1_SerializeParse
        /\ ( /\ IsExtract
             /\ WithinLimits(Archive)
             /\ call'.fault = NoFault
             /\ ~AlreadyExists(call'.output, call'.overwrite, dirs, fsfiles)
             /\ ub' = "none" )
           => /\ outcome' = "ok"
              /\ \A i \in 0..(nfiles - 1) :
                    LET target == Norm(_concat_path(EntryPath(files[i]), call'.output))
                    IN /\ target \in DOMAIN fsfiles'
                       /\ fsfiles'[target] = FileBytes(Archive, i) ]_vars

\* C2: offset derivation.  While the process runs, dlen is the sum of the
\* entries' flen, every entry's range [offset, offset + flen) lies in the
\* content buffer, and the last range ends at dlen.
C2_OffsetDerivation ==
    outcome = "ok" =>
        /\ nfiles <= Z_MAX_FILES
        /\ dlen = SumFlen(files, nfiles)
        /\ \A i \in 0..(nfiles - 1) :
              /\ FileOffset(Archive, i) = SumFlen(files, i)
              /\ FileOffset(Archive, i) + files[i].flen <= Len(data)
        /\ nfiles > 0 =>
              FileOffset(Archive, nfiles - 1) + files[nfiles - 1].flen = dlen

\* C3: file-count limit.  After zf_add_file or zf_add_dir the entry count is
\* at most Z_MAX_FILES and no entry was written past files[]; the add made
\* with Z_MAX_FILES entries present ends in TooManyFiles.
C3_FileCountLimit ==
    call.op \in {"zf_add_file", "zf_add_dir"} =>
        /\ nfiles <= Z_MAX_FILES
        /\ ub # "files_overflow"
        /\ (call.op = "zf_add_file" /\ call.n0 = Z_MAX_FILES) => outcome = "TooManyFiles"

\* C4: path-length limit.  zf_add_file with a path longer than
\* Z_MAX_PATH_LEN ends in PathTooLong and appends nothing; otherwise the
\* entry stored holds the whole path and its length.
C4_PathLengthLimit ==
    (call.op = "zf_add_file" /\ call.n0 \in FileIdx) =>
        IF Len(call.path) > Z_MAX_PATH_LEN
        THEN outcome = "PathTooLong" /\ nfiles = call.n0
        ELSE outcome = "ok" =>
                /\ EntryPath(files[call.n0]) = call.path
                /\ files[call.n0].plen = Len(call.path)

\* C5: corruption handling.  zf_decompress of a buffer zf_compress wrote,
\* cut short anywhere, ends in FormatError and reads nothing past the
\* buffer.
C5_TruncationHandled ==
    (call.op = "zf_decompress" /\ call.parsed /\ call.written /\ call.cut < call.size) =>
        outcome = "FormatError" /\ ub # "oob_read"

\* C6: deserialization enforces the limits.  An entry count above
\* Z_MAX_FILES ends zf_decompress in FormatError, and no entry is written at
\* an index >= Z_MAX_FILES nor a path past char path[Z_MAX_PATH_LEN].
C6_LimitsEnforced ==
    (call.op = "zf_decompress" /\ call.parsed) =>
        /\ call.count > Z_MAX_FILES => outcome = "FormatError"
        /\ ub \notin {"files_overflow", "path_overflow"}

\* C7: extraction safety.  zf_decompress_todir with overwrite = false on an
\* output directory that exists ends in AlreadyExists and leaves the file
\* system as it was; with overwrite = true, or an output path that does not
\* exist, it does not end in AlreadyExists.
C7_ExtractionSafety ==
    [][ IsExtract =>
          /\ (Norm(call'.output) \in dirs /\ ~call'.overwrite) =>
                (outcome' = "AlreadyExists" /\ dirs' = dirs /\ fsfiles' = fsfiles)
          /\ (call'.overwrite \/ ~Stat(call'.output, dirs, fsfiles)) =>
                outcome' # "AlreadyExists" ]_vars

\* C7 witness: a non-empty archive was refused extraction onto a directory
\* that exists.
C7_Witness ==
    /\ call.op = "zf_decompress_todir"
    /\ outcome = "AlreadyExists"
    /\ ~call.overwrite
    /\ Norm(call.output) \in dirs
    /\ nfiles > 0

\* C8: ensure_directories.  When _create_necessary_dirs returns, every
\* non-empty prefix of the path that ends right before a '/' is a directory
\* (which is what splitting until no '/' is left amounts to).
C8_EveryAncestor ==
    (call.op = "_create_necessary_dirs" /\ call.done /\ outcome = "ok") =>
        \A k \in 2..Len(call.path) :
            call.path[k] = SLASH => Norm(SubSeq(call.path, 1, k - 1)) \in dirs

\* C9: a write failure is fatal.  When opening or writing the file of entry i
\* fails, zf_decompress_todir does not end normally and writes no file of an
\* entry after i.
C9_WriteFailureFatal ==
    (call.op = "zf_decompress_todir") =>
        /\ (call.fault.kind = "open" /\ Len(call.log) >= call.fault.at /\ outcome \in {"ok", "IOError"}) =>
              /\ outcome = "IOError"
              /\ \A j \in Range(call.log) : j < call.fault.at
        /\ (call.fault.kind = "write" /\ call.fault.at \in Range(call.log)
            /\ files[call.fault.at].flen > 0) =>
              /\ outcome # "ok"
              /\ \A j \in Range(call.log) : j <= call.fault.at

\* C10: materialization does not modify the archive.  zf_decompress_todir
\* leaves nfiles, every entry's plen, flen and first plen path bytes, the
\* content and dlen as they were.
C10_ArchiveUnchanged ==
    [][ IsExtract => SameArchive(ArchiveNext, Archive) ]_vars

====
